---- MODULE Spec2Model ----
(***************************************************************************)
(* A model of molden_to_abins.py: the conversion of a Molden text file     *)
(* into the AbinsData record.                                              *)
(*                                                                         *)
(* A line of text is a sequence of one-character strings, so that strip,   *)
(* the header pattern, split and the "vibration" test are computed from    *)
(* the characters as the Python code computes them.  A float is a record   *)
(* [val, bohr] standing for val * Bohr^bohr: the Bohr constant is kept     *)
(* symbolic, which makes "multiplied by Bohr once" an exact statement.     *)
(***************************************************************************)
EXTENDS Integers, Sequences, FiniteSets, TLC

VARIABLES
    file,           \* the lines of the input file, as written on disk
    fd,             \* the lines of the open file not read yet
    args_output,    \* TRUE when --output names a file, FALSE for stdout
    pc,             \* position of main
    err,            \* the exception main ended with, "none" if none
    raw_data,       \* result of _read_blocks
    atoms_data,     \* result of parse_atoms_data
    k_points_data,  \* result of parse_k_points_data
    out_file,       \* documents written to the --output file
    stdout          \* documents printed

vars == <<file, fd, args_output, pc, err, raw_data, atoms_data,
          k_points_data, out_file, stdout>>

-----------------------------------------------------------------------------
(* Bounds of the explored inputs *)

MaxStream == 4
MaxSections == 3
MaxNormLines == 7
MaxFreqLines == 2
MaxAtomLines == 2

-----------------------------------------------------------------------------
(* Characters *)

Digits == {"0", "1", "2", "3", "4", "5", "6", "7", "8", "9"}

Letters ==
    {"a", "b", "c", "d", "e", "f", "g", "h", "i", "j", "k", "l", "m",
     "n", "o", "p", "q", "r", "s", "t", "u", "v", "w", "x", "y", "z",
     "A", "B", "C", "D", "E", "F", "G", "H", "I", "J", "K", "L", "M",
     "N", "O", "P", "Q", "R", "S", "T", "U", "V", "W", "X", "Y", "Z"}

\* \w of the header pattern
WordChars == Letters \cup Digits \cup {"_"}

\* what str.strip, str.split and \s take for white space
Whitespace == {" ", "\t", "\n", "\r"}

NL == <<"\n">>

\* Python's None, as a header and as a block: no line of characters and no
\* list of lines equals them
NoneHeader == <<"None">>

NoneBlock == << <<"None">> >>

EmptyDict == [k \in {} |-> <<>>]

DictPut(d, k, v) == [x \in (DOMAIN d) \cup {k} |-> IF x = k THEN v ELSE d[x]]

Result(e, v) == [err |-> e, val |-> v]

-----------------------------------------------------------------------------
(* Text primitives *)

RECURSIVE lstrip(_)
lstrip(s) ==
    IF s # <<>> /\ Head(s) \in Whitespace THEN lstrip(Tail(s)) ELSE s

RECURSIVE rstrip(_)
rstrip(s) ==
    IF s # <<>> /\ s[Len(s)] \in Whitespace
    THEN rstrip(SubSeq(s, 1, Len(s) - 1))
    ELSE s

strip(s) == rstrip(lstrip(s))

\* str.split(): the maximal runs of non-white-space characters, in order
RECURSIVE SplitFrom(_, _, _)
SplitFrom(s, cur, acc) ==
    IF s = <<>>
    THEN IF cur = <<>> THEN acc ELSE Append(acc, cur)
    ELSE IF Head(s) \in Whitespace
         THEN SplitFrom(Tail(s), <<>>,
                        IF cur = <<>> THEN acc ELSE Append(acc, cur))
         ELSE SplitFrom(Tail(s), Append(cur, Head(s)), acc)

split(s) == SplitFrom(s, <<>>, <<>>)

\* sub in s
Contains(sub, s) ==
    \E i \in 1..(Len(s) - Len(sub) + 1) :
        SubSeq(s, i, i + Len(sub) - 1) = sub

\* re.compile(r"\[[\w\-]+\]\s*(AU|Angs)?").match(line): the pattern is
\* anchored at the start of the line only, and its tail \s*(AU|Angs)? matches
\* the empty text, so a line matches when it starts with "[", one or more
\* word characters or hyphens, and "]".
header_re_match(line) ==
    /\ Len(line) >= 3
    /\ line[1] = "["
    /\ \E j \in 3..Len(line) :
          /\ line[j] = "]"
          /\ \A i \in 2..(j - 1) : line[i] \in WordChars \cup {"-"}

DigitVal(c) ==
    CASE c = "0" -> 0 [] c = "1" -> 1 [] c = "2" -> 2 [] c = "3" -> 3
      [] c = "4" -> 4 [] c = "5" -> 5 [] c = "6" -> 6 [] c = "7" -> 7
      [] c = "8" -> 8 [] c = "9" -> 9

RECURSIVE DigitsVal(_, _)
DigitsVal(s, acc) ==
    IF s = <<>> THEN acc ELSE DigitsVal(Tail(s), 10 * acc + DigitVal(Head(s)))

\* The numeric literals of the modelled inputs: an optional sign and decimal
\* digits.  int() and float() both accept them and reject any other text
\* built from the modelled characters.
IsNumeral(s) ==
    LET body == IF s # <<>> /\ Head(s) \in {"-", "+"} THEN Tail(s) ELSE s
    IN  body # <<>> /\ \A i \in 1..Len(body) : body[i] \in Digits

NumeralVal(s) ==
    IF Head(s) = "-" THEN 0 - DigitsVal(Tail(s), 0)
    ELSE IF Head(s) = "+" THEN DigitsVal(Tail(s), 0)
    ELSE DigitsVal(s, 0)

\* A float: val * Bohr^bohr
Float(n) == [val |-> n, bohr |-> 0]

Bohr == [val |-> 1, bohr |-> 1]

FloatMul(x, y) ==
    IF x.val * y.val = 0 THEN Float(0)
    ELSE [val |-> x.val * y.val, bohr |-> x.bohr + y.bohr]

\* int(text) and float(text): white space around the literal is ignored
int(s) ==
    IF IsNumeral(strip(s)) THEN Result("none", NumeralVal(strip(s)))
    ELSE Result("ValueError", 0)

float(s) ==
    IF IsNumeral(strip(s)) THEN Result("none", Float(NumeralVal(strip(s))))
    ELSE Result("ValueError", Float(0))

-----------------------------------------------------------------------------
(* Literal texts of the program *)

MoldenHeader ==
    <<"[", "M", "o", "l", "d", "e", "n", " ", "F", "o", "r", "m", "a", "t", "]">>

KeyAtomsAU == <<"[", "A", "t", "o", "m", "s", "]", " ", "A", "U">>

KeyAtomsAngs == <<"[", "A", "t", "o", "m", "s", "]", " ", "A", "n", "g", "s">>

KeyFreq == <<"[", "F", "R", "E", "Q", "]">>

KeyNormCoord ==
    <<"[", "F", "R", "-", "N", "O", "R", "M", "-", "C", "O", "O", "R", "D", "]">>

vibration == <<"v", "i", "b", "r", "a", "t", "i", "o", "n">>

-----------------------------------------------------------------------------
(* _check_first_line *)

\* fd.readline(): the next line, or the empty text at the end of the file
readline(f) == IF f = <<>> THEN <<>> ELSE Head(f)

AfterReadline(f) == IF f = <<>> THEN <<>> ELSE Tail(f)

\* the test of line 29 inverted: the error is raised for the good header
_check_first_line_inverted(f) ==
    IF strip(readline(f)) # MoldenHeader
    THEN Result("none", AfterReadline(f))
    ELSE Result("ValueError", AfterReadline(f))

_check_first_line(f) ==
    IF strip(readline(f)) = MoldenHeader
    THEN Result("none", AfterReadline(f))
    ELSE Result("ValueError", AfterReadline(f))

-----------------------------------------------------------------------------
(* _read_blocks *)

\* one pass of the loop body over a stripped line
ReadBlocksLine(st, line) ==
    IF st.err # "none" THEN st
    ELSE IF header_re_match(line)
    THEN [st EXCEPT
            !.raw_data = IF st.current_header # NoneHeader
                            /\ st.current_header # <<>>
                         THEN DictPut(st.raw_data, st.current_header,
                                      st.current_block)
                         ELSE st.raw_data,
            !.current_header = line,
            !.current_block = <<>>]
    ELSE IF st.current_block = NoneBlock
         THEN [st EXCEPT !.err = "AttributeError"]
         ELSE [st EXCEPT !.current_block = Append(st.current_block, line)]

RECURSIVE ReadBlocksLoop(_, _)
ReadBlocksLoop(st, lines) ==
    IF lines = <<>> THEN st
    ELSE ReadBlocksLoop(ReadBlocksLine(st, strip(Head(lines))), Tail(lines))

_read_blocks(f) ==
    LET st0 == [raw_data |-> EmptyDict, current_header |-> NoneHeader,
                current_block |-> NoneBlock, err |-> "none"]
        st == ReadBlocksLoop(st0, f)
    IN  IF st.err # "none" THEN Result(st.err, EmptyDict)
        ELSE Result("none",
                    DictPut(st.raw_data, st.current_header, st.current_block))

-----------------------------------------------------------------------------
(* parse_atoms_data *)

\* ase.data.atomic_masses: a table indexed by proton number
AtomicMassesLen == 119

\* atomic_masses[z], a numpy lookup: a negative index counts from the end
atomic_masses(z) ==
    IF z >= 0 /\ z < AtomicMassesLen THEN Result("none", <<"amu", z>>)
    ELSE IF z < 0 /\ z >= 0 - AtomicMassesLen
         THEN Result("none", <<"amu", z + AtomicMassesLen>>)
         ELSE Result("IndexError", <<"amu", 0>>)

\* the factor of line 146 left out
_bohr_to_ang_unscaled(coord) == coord

_bohr_to_ang(coord) == [i \in 1..Len(coord) |-> FloatMul(coord[i], Bohr)]

_parse_atom_line(line) ==
    LET f == split(line)
    IN  IF Len(f) # 6 THEN Result("ValueError", <<>>)
        ELSE IF \/ int(f[2]).err # "none" \/ int(f[3]).err # "none"
                \/ float(f[4]).err # "none" \/ float(f[5]).err # "none"
                \/ float(f[6]).err # "none"
             THEN Result("ValueError", <<>>)
             ELSE Result("none",
                         [symbol |-> f[1], index |-> int(f[2]).val,
                          proton_number |-> int(f[3]).val,
                          coord |-> <<float(f[4]).val, float(f[5]).val,
                                      float(f[6]).val>>])

\* f"atom_{n}"
AtomKey(n) == <<"atom_", n>>

\* one entry of the dict comprehension
AtomEntry(t) ==
    LET m == atomic_masses(t.proton_number)
    IN  IF m.err # "none" THEN Result(m.err, <<>>)
        ELSE Result("none",
                    [key |-> AtomKey(t.index - 1),
                     data |-> [coord |-> t.coord, mass |-> m.val,
                               sort |-> t.index - 1, symbol |-> t.symbol]])

\* the dict comprehension over the atom lines, first error wins
RECURSIVE AtomsLoop(_, _)
AtomsLoop(lines, acc) ==
    IF lines = <<>> THEN Result("none", acc)
    ELSE LET t == _parse_atom_line(Head(lines))
         IN  IF t.err # "none" THEN Result(t.err, EmptyDict)
             ELSE LET e == AtomEntry(t.val)
                  IN  IF e.err # "none" THEN Result(e.err, EmptyDict)
                      ELSE AtomsLoop(Tail(lines),
                                     DictPut(acc, e.val.key, e.val.data))

parse_atoms_data(rd) ==
    IF KeyAtomsAU \notin DOMAIN rd /\ KeyAtomsAngs \notin DOMAIN rd
    THEN Result("KeyError", EmptyDict)
    ELSE LET bohr_units == KeyAtomsAU \in DOMAIN rd
             raw_atom_lines == IF bohr_units THEN rd[KeyAtomsAU]
                               ELSE rd[KeyAtomsAngs]
             r == AtomsLoop(raw_atom_lines, EmptyDict)
         IN  IF r.err # "none" THEN r
             ELSE IF bohr_units
                  THEN Result("none",
                              [k \in DOMAIN r.val |->
                                  [r.val[k] EXCEPT
                                      !.coord = _bohr_to_ang(r.val[k].coord)]])
                  ELSE r

-----------------------------------------------------------------------------
(* _parse_displacements and parse_k_points_data *)

\* one pass of the loop body of _parse_displacements
DisplacementLine(st, line) ==
    IF st.err # "none" THEN st
    ELSE IF Contains(vibration, line)
    THEN IF st.current_mode_data # <<>>
         THEN [st EXCEPT
                 !.modes_array = Append(st.modes_array, st.current_mode_data),
                 !.current_mode_data = <<>>]
         ELSE st
    ELSE LET f == split(line)
         IN  IF Len(f) # 3 THEN [st EXCEPT !.err = "ValueError"]
             ELSE IF \/ float(f[1]).err # "none" \/ float(f[2]).err # "none"
                     \/ float(f[3]).err # "none"
                  THEN [st EXCEPT !.err = "ValueError"]
                  ELSE [st EXCEPT !.current_mode_data =
                           Append(st.current_mode_data,
                                  <<float(f[1]).val, Float(0),
                                    float(f[2]).val, Float(0),
                                    float(f[3]).val, Float(0)>>)]

RECURSIVE DisplacementLoop(_, _)
DisplacementLoop(st, lines) ==
    IF lines = <<>> THEN st
    ELSE DisplacementLoop(DisplacementLine(st, Head(lines)), Tail(lines))

\* the list of mode groups handed to np.asarray
ModeGroups(lines) ==
    LET st0 == [modes_array |-> <<>>, current_mode_data |-> <<>>,
                err |-> "none"]
        st == DisplacementLoop(st0, lines)
    IN  IF st.err # "none" THEN Result(st.err, <<>>)
        ELSE Result("none", Append(st.modes_array, st.current_mode_data))

\* np.asarray(modes_array, dtype=float): the groups must all have one length
asarray(groups) ==
    IF \A i \in 1..Len(groups) : Len(groups[i]) = Len(groups[1])
    THEN Result("none", groups)
    ELSE Result("ValueError", <<>>)

\* np.expand_dims(a, 0)
expand_dims(a) == <<a>>

\* line 127 left out: the axes stay [k][mode][atom]
swapaxes_skipped(a) == a

\* a.swapaxes(1, 2) of an array [k][m][a], whose second axis is not empty
swapaxes(a) ==
    [k \in 1..Len(a) |->
        [i \in 1..Len(a[k][1]) |->
            [j \in 1..Len(a[k]) |-> a[k][j][i]]]]

_parse_displacements(rd) ==
    IF KeyNormCoord \notin DOMAIN rd THEN Result("KeyError", <<>>)
    ELSE LET g == ModeGroups(rd[KeyNormCoord])
         IN  IF g.err # "none" THEN g
             ELSE LET arr == asarray(g.val)
                  IN  IF arr.err # "none" THEN arr
                      ELSE Result("none", swapaxes(expand_dims(arr.val)))

\* list(map(float, lines)), first error wins
RECURSIVE FloatList(_, _)
FloatList(lines, acc) ==
    IF lines = <<>> THEN Result("none", acc)
    ELSE LET v == float(Head(lines))
         IN  IF v.err # "none" THEN Result(v.err, <<>>)
             ELSE FloatList(Tail(lines), Append(acc, v.val))

parse_k_points_data(rd) ==
    IF KeyFreq \notin DOMAIN rd THEN Result("KeyError", <<>>)
    ELSE LET fr == FloatList(rd[KeyFreq], <<>>)
         IN  IF fr.err # "none" THEN fr
             ELSE LET d == _parse_displacements(rd)
                  IN  IF d.err # "none" THEN d
                      ELSE Result("none",
                              [k_vectors |-> << <<Float(0), Float(0), Float(0)>> >>,
                               unit_cell |->
                                  << <<Float(0), Float(0), Float(0)>>,
                                     <<Float(0), Float(0), Float(0)>>,
                                     <<Float(0), Float(0), Float(0)>> >>,
                               weights |-> <<Float(1)>>,
                               frequencies |-> <<fr.val>>,
                               atomic_displacements |-> d.val])

-----------------------------------------------------------------------------
(* main *)

\* the exception caught and the run carried on to the output
FailSwallowed(e) ==
    /\ pc' = "emit"
    /\ err' = e

\* main catches nothing: an exception of a step ends the run
Fail(e) ==
    /\ pc' = "failed"
    /\ err' = e

\* line 158: _check_first_line(fd)
CheckFirstLine ==
    /\ pc = "check_first_line"
    /\ LET r == _check_first_line(fd)
       IN  /\ fd' = r.val
           /\ IF r.err = "none"
              THEN pc' = "read_blocks" /\ err' = err
              ELSE Fail(r.err)
    /\ UNCHANGED <<file, args_output, raw_data, atoms_data, k_points_data,
                   out_file, stdout>>

\* line 160: raw_data = _read_blocks(fd)
ReadBlocks ==
    /\ pc = "read_blocks"
    /\ LET r == _read_blocks(fd)
       IN  IF r.err = "none"
           THEN /\ raw_data' = r.val
                /\ fd' = <<>>
                /\ pc' = "parse_atoms"
                /\ err' = err
           ELSE /\ Fail(r.err)
                /\ UNCHANGED <<raw_data, fd>>
    /\ UNCHANGED <<file, args_output, atoms_data, k_points_data, out_file,
                   stdout>>

\* line 162: atoms_data = parse_atoms_data(raw_data)
ParseAtoms ==
    /\ pc = "parse_atoms"
    /\ LET r == parse_atoms_data(raw_data)
       IN  IF r.err = "none"
           THEN /\ atoms_data' = r.val
                /\ pc' = "parse_k_points"
                /\ err' = err
           ELSE /\ Fail(r.err)
                /\ UNCHANGED atoms_data
    /\ UNCHANGED <<file, fd, args_output, raw_data, k_points_data, out_file,
                   stdout>>

\* line 163: k_points_data = parse_k_points_data(raw_data)
ParseKPoints ==
    /\ pc = "parse_k_points"
    /\ LET r == parse_k_points_data(raw_data)
       IN  IF r.err = "none"
           THEN /\ k_points_data' = r.val
                /\ pc' = "emit"
                /\ err' = err
           ELSE /\ Fail(r.err)
                /\ UNCHANGED k_points_data
    /\ UNCHANGED <<file, fd, args_output, raw_data, atoms_data, out_file,
                   stdout>>

\* lines 165-170
output_data ==
    [k_points_data |-> k_points_data, atoms_data |-> atoms_data,
     abins_class |-> "AbinsData", mantid_version |-> "6.9"]

\* lines 172-176: json.dump to the --output file, or print
Emit ==
    /\ pc = "emit"
    /\ IF args_output
       THEN out_file' = Append(out_file, output_data) /\ stdout' = stdout
       ELSE stdout' = Append(stdout, output_data) /\ out_file' = out_file
    /\ pc' = "done"
    /\ UNCHANGED <<file, fd, args_output, err, raw_data, atoms_data,
                   k_points_data>>

-----------------------------------------------------------------------------
(* Input files *)

SeqsUpTo(S, n) == UNION {[1..k -> S] : k \in 0..n}

RECURSIVE Flatten(_)
Flatten(ss) == IF ss = <<>> THEN <<>> ELSE Head(ss) \o Flatten(Tail(ss))

\* the words joined by one blank, with the line end
RECURSIVE JoinWords(_)
JoinWords(ws) ==
    IF ws = <<>> THEN <<>>
    ELSE IF Len(ws) = 1 THEN Head(ws)
    ELSE Head(ws) \o <<" ">> \o JoinWords(Tail(ws))

TextLine(ws) == JoinWords(ws) \o NL

AtomLineH1 ==
    TextLine(<< <<"H">>, <<"1">>, <<"1">>, <<"0">>, <<"0">>, <<"1">> >>)

AtomLineO2 ==
    TextLine(<< <<"O">>, <<"2">>, <<"8">>, <<"0">>, <<"3">>, <<"-", "2">> >>)

AtomLineBad == TextLine(<< <<"H">>, <<"1">>, <<"x">> >>)

FreqLine7 == TextLine(<< <<"7">> >>)

FreqLine9 == TextLine(<< <<"9">> >>)

VibrationLine == TextLine(<< vibration, <<"1">> >>)

CoordLineA == TextLine(<< <<"0">>, <<"0">>, <<"1">> >>)

CoordLineB == TextLine(<< <<"1">>, <<"2">>, <<"3">> >>)

CoordLineBad == TextLine(<< <<"0">>, <<"0">> >>)

GoodFirstLine == MoldenHeader \o NL

PaddedFirstLine == <<" ">> \o MoldenHeader \o <<" ">> \o NL

WrongFirstLine == <<"[", "M", "o", "l", "d", "e", "n", "]">> \o NL

BlankLine == NL

SectionSamples ==
    { <<KeyAtomsAU \o NL, AtomLineH1, AtomLineO2>>,
      <<KeyAtomsAngs \o NL, AtomLineO2, AtomLineH1>>,
      <<KeyFreq \o NL, FreqLine7>>,
      <<KeyFreq \o NL, FreqLine7, FreqLine9>>,
      <<KeyNormCoord \o NL, VibrationLine, CoordLineA, CoordLineB>>,
      <<KeyNormCoord \o NL, VibrationLine, CoordLineA, VibrationLine,
        CoordLineB>>,
      <<KeyNormCoord \o NL, VibrationLine, CoordLineBad>> }

FileHeads ==
    { <<GoodFirstLine>>, <<PaddedFirstLine>>, <<WrongFirstLine>>,
      <<GoodFirstLine, BlankLine>> }

Files ==
    {<<>>} \cup
    {h \o Flatten(b) : h \in FileHeads, b \in SeqsUpTo(SectionSamples, MaxSections)}

-----------------------------------------------------------------------------
(* The whole program *)

Init ==
    /\ file \in Files
    /\ fd = file
    /\ args_output \in BOOLEAN
    /\ pc = "check_first_line"
    /\ err = "none"
    /\ raw_data = EmptyDict
    /\ atoms_data = EmptyDict
    /\ k_points_data = EmptyDict
    /\ out_file = <<>>
    /\ stdout = <<>>

Next ==
    \/ CheckFirstLine
    \/ ReadBlocks
    \/ ParseAtoms
    \/ ParseKPoints
    \/ Emit

Spec == Init /\ [][Next]_vars

-----------------------------------------------------------------------------
(* _read_blocks alone: main has checked the first line and is about to     *)
(* read the blocks of an arbitrary stream of lines                         *)

PaddedAtomsAULine == <<" ">> \o KeyAtomsAU \o <<" ">> \o NL

PaddedCoordLine == <<" ", " ">> \o CoordLineA

StreamLines ==
    { KeyFreq \o NL, PaddedAtomsAULine, KeyNormCoord \o NL, FreqLine7,
      PaddedCoordLine }

InitBlocks ==
    /\ \E s \in SeqsUpTo(StreamLines, MaxStream) :
          /\ file = <<GoodFirstLine>> \o s
          /\ fd = s
    /\ args_output = FALSE
    /\ pc = "read_blocks"
    /\ err = "none"
    /\ raw_data = EmptyDict
    /\ atoms_data = EmptyDict
    /\ k_points_data = EmptyDict
    /\ out_file = <<>>
    /\ stdout = <<>>

NextBlocks == ReadBlocks

SpecBlocks == InitBlocks /\ [][NextBlocks]_vars

-----------------------------------------------------------------------------
(* parse_atoms_data alone: main has read the blocks of a file whose atoms  *)
(* sections are arbitrary                                                  *)

AtomLineC1 ==
    TextLine(<< <<"C">>, <<"1">>, <<"6">>, <<"2">>, <<"0">>, <<"0">> >>)

AtomLineSamples == {AtomLineH1, AtomLineO2, AtomLineC1, AtomLineBad}

AtomSections(key) ==
    {<<>>} \cup
    {<<key \o NL>> \o ls : ls \in SeqsUpTo(AtomLineSamples, MaxAtomLines)}

InitAtoms ==
    /\ \E au \in AtomSections(KeyAtomsAU), angs \in AtomSections(KeyAtomsAngs),
          auFirst \in BOOLEAN :
          LET body == IF auFirst THEN au \o angs ELSE angs \o au
          IN  /\ file = <<GoodFirstLine>> \o body
              /\ raw_data = _read_blocks(body).val
    /\ fd = <<>>
    /\ args_output = FALSE
    /\ pc = "parse_atoms"
    /\ err = "none"
    /\ atoms_data = EmptyDict
    /\ k_points_data = EmptyDict
    /\ out_file = <<>>
    /\ stdout = <<>>

NextAtoms == ParseAtoms

SpecAtoms == InitAtoms /\ [][NextAtoms]_vars

-----------------------------------------------------------------------------
(* parse_k_points_data alone: main has parsed the atoms of a file whose    *)
(* [FREQ] and [FR-NORM-COORD] sections are arbitrary                       *)

NormLineSamples == {VibrationLine, CoordLineA, CoordLineB}

InitModes ==
    /\ \E fr \in SeqsUpTo({FreqLine7}, MaxFreqLines),
          nc \in SeqsUpTo(NormLineSamples, MaxNormLines) :
          LET body == <<KeyAtomsAngs \o NL, AtomLineH1, AtomLineO2>>
                      \o <<KeyFreq \o NL>> \o fr
                      \o <<KeyNormCoord \o NL>> \o nc
              rd == _read_blocks(body).val
          IN  /\ file = <<GoodFirstLine>> \o body
              /\ raw_data = rd
              /\ atoms_data = parse_atoms_data(rd).val
    /\ fd = <<>>
    /\ args_output = FALSE
    /\ pc = "parse_k_points"
    /\ err = "none"
    /\ k_points_data = EmptyDict
    /\ out_file = <<>>
    /\ stdout = <<>>

NextModes == ParseKPoints

SpecModes == InitModes /\ [][NextModes]_vars

-----------------------------------------------------------------------------
(* Properties of _read_blocks *)

\* the stream that main hands to _read_blocks: the file after its first line
Stream == AfterReadline(file)

\* the places of the header lines of a stream
HeaderIdx(s) == {i \in 1..Len(s) : header_re_match(strip(s[i]))}

NextHeaderIdx(s, i) ==
    IF \E j \in HeaderIdx(s) : j > i
    THEN CHOOSE j \in HeaderIdx(s) :
            j > i /\ \A k \in HeaderIdx(s) : k > i => j <= k
    ELSE Len(s) + 1

\* the stripped lines between header i and the next header or the end
LinesAfter(s, i) ==
    [k \in 1..(NextHeaderIdx(s, i) - i - 1) |-> strip(s[i + k])]

DistinctHeaders(s) ==
    \A i, j \in HeaderIdx(s) : i # j => strip(s[i]) # strip(s[j])

\* the sections that the header lines of a stream introduce
SectionsOf(s) ==
    [h \in {strip(s[i]) : i \in HeaderIdx(s)} |->
        LET i == CHOOSE i \in HeaderIdx(s) :
                    strip(s[i]) = h /\ \A j \in HeaderIdx(s) :
                                          strip(s[j]) = h => j <= i
        IN  LinesAfter(s, i)]

BlocksRead == pc \in {"parse_atoms", "failed"}

\* C3 (as stated): for a stream of N >= 0 distinct header lines that does
\* not start with a non-header line, _read_blocks returns exactly N keys, each
\* the stripped text of a header line, holding exactly the stripped lines
\* between that header and the next one or the end of the stream.
C3_BlockCompleteness ==
    (/\ BlocksRead
     /\ Stream = <<>> \/ 1 \in HeaderIdx(Stream)
     /\ DistinctHeaders(Stream))
    => /\ err = "none"
       /\ Cardinality(DOMAIN raw_data) = Cardinality(HeaderIdx(Stream))
       /\ \A i \in HeaderIdx(Stream) :
             /\ strip(Stream[i]) \in DOMAIN raw_data
             /\ raw_data[strip(Stream[i])] = LinesAfter(Stream, i)

\* C3 holds of every stream that has at least one line: the empty stream is
\* the one case where the result has a key that no header line gave.
BlockCompletenessNonEmpty ==
    (/\ BlocksRead
     /\ 1 \in HeaderIdx(Stream)
     /\ DistinctHeaders(Stream))
    => /\ err = "none"
       /\ raw_data = SectionsOf(Stream)
       /\ Cardinality(DOMAIN raw_data) = Cardinality(HeaderIdx(Stream))
       /\ \A i \in HeaderIdx(Stream) :
             raw_data[strip(Stream[i])] = LinesAfter(Stream, i)

\* C8 (as stated): when non-header lines come before the first header line,
\* or the stream has no header line at all, _read_blocks does not crash and
\* returns only the sections that real header lines introduce.
C8_MissingInitialHeaderTolerated ==
    (/\ BlocksRead
     /\ 1 \notin HeaderIdx(Stream))
    => /\ err = "none"
       /\ raw_data = SectionsOf(Stream)

-----------------------------------------------------------------------------
(* Properties of parse_atoms_data *)

AtomsParsed == pc \in {"parse_k_points", "emit", "done"}

AUPresent == KeyAtomsAU \in DOMAIN raw_data

\* the lines of the atoms section that the claims say is used
SelectedAtomLines ==
    IF AUPresent THEN raw_data[KeyAtomsAU] ELSE raw_data[KeyAtomsAngs]

\* the six fields of the i-th line of the selected section
AtomFields(i) == split(SelectedAtomLines[i])

\* the i-th line is the last one that prints its index field
LastOfIndex(i) ==
    \A j \in (i + 1)..Len(SelectedAtomLines) : AtomFields(j)[2] # AtomFields(i)[2]

\* the coordinate that field c of line i prints, times Bohr if scaled
ExpectedCoord(i, c, scaled) ==
    LET v == NumeralVal(AtomFields(i)[c])
    IN  [val |-> v, bohr |-> IF scaled /\ v # 0 THEN 1 ELSE 0]

\* C2 (as stated): the i-th line of the atoms section (i = 0..K-1) produces
\* the record keyed atom_i with sort = i, whatever index field it prints.
C2_AtomOrderPreserved ==
    AtomsParsed =>
        \A i \in 1..Len(SelectedAtomLines) :
            /\ AtomKey(i - 1) \in DOMAIN atoms_data
            /\ atoms_data[AtomKey(i - 1)].sort = i - 1
            /\ atoms_data[AtomKey(i - 1)].symbol = AtomFields(i)[1]

\* C7: the [Atoms] AU section is used whenever it is present, [Atoms] Angs
\* otherwise; every coordinate of every record is the printed value times
\* Bohr exactly once when the AU section was used, and the printed value
\* itself when the Angs section was used.
C7_SectionSelectionAndUnits ==
    AtomsParsed =>
        /\ DOMAIN atoms_data =
              {AtomKey(NumeralVal(AtomFields(i)[2]) - 1) :
                  i \in 1..Len(SelectedAtomLines)}
        /\ \A i \in 1..Len(SelectedAtomLines) :
              LastOfIndex(i) =>
                 LET rec == atoms_data[AtomKey(NumeralVal(AtomFields(i)[2]) - 1)]
                 IN  /\ rec.symbol = AtomFields(i)[1]
                     /\ \A c \in 1..3 :
                           rec.coord[c] = ExpectedCoord(i, c + 3, AUPresent)

\* both sections present, the AU one used and scaled
C7_Witness_BothSections ==
    /\ AtomsParsed
    /\ AUPresent
    /\ KeyAtomsAngs \in DOMAIN raw_data
    /\ raw_data[KeyAtomsAngs] # raw_data[KeyAtomsAU]
    /\ Len(raw_data[KeyAtomsAngs]) > 0
    /\ \E k \in DOMAIN atoms_data : atoms_data[k].coord[2].bohr = 1

-----------------------------------------------------------------------------
(* Properties of _parse_displacements and parse_k_points_data *)

KPointsParsed == pc \in {"emit", "done"}

KPointsTried == pc \in {"emit", "done", "failed"}

NormLines == raw_data[KeyNormCoord]

IsDelimiter(line) == Contains(vibration, line)

\* [x, 0, y, 0, z, 0] of a coordinate line
SixOf(line) ==
    LET f == split(line)
    IN  <<Float(NumeralVal(f[1])), Float(0), Float(NumeralVal(f[2])),
          Float(0), Float(NumeralVal(f[3])), Float(0)>>

\* the section is M groups, each a delimiter line followed by K other lines
GroupedAs(lines, M, K) ==
    /\ Len(lines) = M * (K + 1)
    /\ \A i \in 1..Len(lines) :
          IsDelimiter(lines[i]) <=> (i - 1) % (K + 1) = 0

\* the a-th coordinate line of the m-th group (both counted from 1)
GroupLine(lines, K, m, a) == lines[(m - 1) * (K + 1) + 1 + a]

\* C1: for a [FR-NORM-COORD] section of M >= 1 groups, each a delimiter line
\* followed by K >= 1 coordinate lines, the array returned has shape
\* [1][K][M][6] and its entry for atom a and mode m is [x, 0, y, 0, z, 0] of the
\* a-th coordinate line of the m-th group.
C1_AxisSwapAndShape ==
    \A M \in 1..MaxNormLines, K \in 1..MaxNormLines :
        (KPointsTried /\ GroupedAs(NormLines, M, K)) =>
            /\ KPointsParsed
            /\ LET D == k_points_data.atomic_displacements
               IN  /\ Len(D) = 1
                   /\ Len(D[1]) = K
                   /\ \A a \in 1..K :
                         /\ Len(D[1][a]) = M
                         /\ \A m \in 1..M :
                               /\ Len(D[1][a][m]) = 6
                               /\ D[1][a][m] = SixOf(GroupLine(NormLines, K, m, a))
                               /\ \A c \in {2, 4, 6} : D[1][a][m][c] = Float(0)

\* two modes of two atoms each, the atoms in opposite order: the shape does
\* not tell the axes apart, the values do
C1_Witness_TwoByTwo ==
    /\ KPointsParsed
    /\ GroupedAs(NormLines, 2, 2)
    /\ NormLines[2] # NormLines[3]
    /\ NormLines[5] = NormLines[3]
    /\ NormLines[6] = NormLines[2]
    /\ k_points_data.atomic_displacements[1][1][2] = SixOf(NormLines[5])
    /\ k_points_data.atomic_displacements[1][1][2]
          # k_points_data.atomic_displacements[1][2][2]

\* the places of the delimiter lines of a section
DelimiterIdx(lines) == {i \in 1..Len(lines) : IsDelimiter(lines[i])}

NextDelimiterIdx(lines, i) ==
    IF \E j \in DelimiterIdx(lines) : j > i
    THEN CHOOSE j \in DelimiterIdx(lines) :
            j > i /\ \A k \in DelimiterIdx(lines) : k > i => j <= k
    ELSE Len(lines) + 1

\* the i-th smallest element of a set of numbers
RECURSIVE IthOf(_, _)
IthOf(S, i) ==
    LET lo == CHOOSE x \in S : \A y \in S : x <= y
    IN  IF i = 1 THEN lo ELSE IthOf(S \ {lo}, i - 1)

\* one group per delimiter line: the coordinate lines up to the next one
GroupsByDelimiter(lines) ==
    [g \in 1..Cardinality(DelimiterIdx(lines)) |->
        LET i == IthOf(DelimiterIdx(lines), g)
        IN  [k \in 1..(NextDelimiterIdx(lines, i) - i - 1) |->
                SixOf(lines[i + k])]]

\* C10 (as stated): the mode groups collected are one per delimiter line,
\* the i-th holding the coordinate lines between the i-th delimiter and the
\* next one or the end of the section; a delimiter with no coordinate lines
\* gives an empty group, and an empty section or lines before the first
\* delimiter give no group.
C10_ModeGrouping ==
    KPointsTried =>
        /\ ModeGroups(NormLines).err = "none"
        /\ ModeGroups(NormLines).val = GroupsByDelimiter(NormLines)

\* C10 holds of the sections that open with a delimiter line and where a
\* coordinate line follows every delimiter line.
ModeGroupingOfFullGroups ==
    (/\ KPointsTried
     /\ 1 \in DelimiterIdx(NormLines)
     /\ \A i \in DelimiterIdx(NormLines) :
           i < Len(NormLines) /\ (i + 1) \notin DelimiterIdx(NormLines))
    => /\ ModeGroups(NormLines).err = "none"
       /\ ModeGroups(NormLines).val = GroupsByDelimiter(NormLines)

\* C4 (as stated): in every record that parse_k_points_data returns, the
\* number of frequencies equals the length of the mode axis of the
\* displacements.
C4_FrequencyModeConsistency ==
    KPointsParsed =>
        \A a \in 1..Len(k_points_data.atomic_displacements[1]) :
            Len(k_points_data.atomic_displacements[1][a])
                = Len(k_points_data.frequencies[1])

-----------------------------------------------------------------------------
(* Properties of main *)

Emitted == out_file \o stdout

\* the first line of the file without its line end
FirstLineText ==
    LET l == readline(file)
    IN  IF l # <<>> /\ l[Len(l)] = "\n" THEN SubSeq(l, 1, Len(l) - 1) ELSE l

\* the run ended with the format error, and nothing after the first line was
\* read, classified or stored
StoppedAtHeader ==
    /\ pc = "failed"
    /\ err = "ValueError"
    /\ fd = AfterReadline(file)
    /\ raw_data = EmptyDict
    /\ atoms_data = EmptyDict
    /\ k_points_data = EmptyDict
    /\ Emitted = <<>>

\* C5 (as stated): when the first line is not exactly the text
\* [Molden Format], the conversion fails with the format error before any
\* line after the first is classified or stored.
C5_HeaderGateExactText ==
    (pc # "check_first_line" /\ FirstLineText # MoldenHeader) => StoppedAtHeader

\* C5 (amended): when the first line, with the white space around it
\* removed, is not the text [Molden Format], the conversion fails with the
\* format error before any line after the first is classified or stored.
C5_HeaderGate ==
    (pc # "check_first_line" /\ strip(readline(file)) # MoldenHeader)
    => StoppedAtHeader

\* a wrong first line followed by sections that were never read
C5_Witness_WrongHeader ==
    /\ StoppedAtHeader
    /\ strip(readline(file)) # MoldenHeader
    /\ Len(file) > 3
    /\ fd # <<>>

\* every step of main succeeds on the file
AllStepsSucceed ==
    LET c == _check_first_line(file)
        b == _read_blocks(c.val)
    IN  /\ c.err = "none"
        /\ b.err = "none"
        /\ parse_atoms_data(b.val).err = "none"
        /\ parse_k_points_data(b.val).err = "none"

\* C6: output is emitted only after the header check, _read_blocks,
\* parse_atoms_data and parse_k_points_data have all succeeded; when a step
\* fails the run ends in an error and nothing is emitted or written.
C6_NoOutputUnlessAssembled ==
    /\ Emitted # <<>> =>
          /\ pc = "done"
          /\ err = "none"
          /\ AllStepsSucceed
          /\ Len(Emitted) = 1
          /\ Emitted[1].atoms_data = atoms_data
          /\ Emitted[1].k_points_data = k_points_data
          /\ DOMAIN Emitted[1].k_points_data # {}
    /\ ~AllStepsSucceed => (pc \notin {"emit", "done"} /\ Emitted = <<>>)
    /\ pc = "failed" => (err # "none" /\ Emitted = <<>>)
    /\ pc = "done" => Len(Emitted) = 1

\* a run that failed in parse_k_points_data, after the atoms were parsed
C6_Witness_LateFailure ==
    /\ pc = "failed"
    /\ err = "ValueError"
    /\ DOMAIN atoms_data # {}
    /\ Emitted = <<>>

\* C9 (as stated): in every output record, the length of the atom axis of
\* atomic_displacements equals the number of entries of atoms_data.
C9_AtomCountInvariant ==
    \A i \in 1..Len(Emitted) :
        Len(Emitted[i].k_points_data.atomic_displacements[1])
            = Cardinality(DOMAIN Emitted[i].atoms_data)

====
